---- MODULE Spec2Model ----
(***************************************************************************)
(* A model of the quotes pipeline: pacho.py (the Selenium crawl and its    *)
(* SQLite store), api.py (the CRUD API on the same store) and gui.py (the  *)
(* Tk client of the API).  The crawl is one sequential process,            *)
(* scrape_quotes, whose position is pc; the browser it drives is an        *)
(* environment that navigates and renders on its own schedule.  The GUI    *)
(* is its main loop, which runs button handlers and root.after callbacks,  *)
(* and the worker threads it starts, one per request.                      *)
(***************************************************************************)
EXTENDS Integers, Sequences, FiniteSets, TLC

(* ---------------- bounds of the model ---------------- *)
MaxBlocks == 2          \* quote blocks on one source page
MaxSitePages == 6       \* pages of the source site
MaxStoreFaults == 1     \* sqlite3.Error occurrences in one session
MaxRerunPages == 2      \* pages of the source site when the pipeline is re-run
MaxId == 3              \* ids assigned when the store is used through the API
MaxRequests == 4        \* requests the API serves to a direct client
MaxStarted == 3         \* worker threads started by the GUI's start and button presses

(* ---------------- program constants ---------------- *)
MaxPage == 5            \* for page in range(1, 6)

VARIABLES
  site,            \* the target content source: site[s][k] is block k of page s
  table,           \* the quotes relation exists in quotes.db
  store,           \* rows of the quotes relation, in insertion order
  seq,             \* AUTOINCREMENT: the largest id ever assigned
  storeFaults,     \* sqlite3.Error occurrences so far
  pc,              \* position of the pipeline process
  page,            \* the loop variable of scrape_quotes
  quote_elements,  \* handles returned by find_elements(By.CLASS_NAME, "quote")
  elemDom,         \* the document the handles of quote_elements belong to
  idx,             \* position of the inner loop in quote_elements
  driver,          \* "none" | "open" | "quit"
  quits,           \* calls of driver.quit() in this run
  dom,             \* source page of the document loaded in the browser (0: none)
  phase,           \* "blank": document loaded, script has not rendered; "rendered"
  nav,             \* a clicked next-page link whose navigation has not started
  outcome,         \* how the run left the page loop
  hist,            \* per find_elements call: the page seen and the rows written
  run,             \* executions of the pipeline so far
  prev,            \* the previous execution, as recorded when the next one starts
  resp,            \* the last response of the API, and the number of requests served
  buttons,         \* the GUI's buttons that are enabled (state NORMAL)
  selected_id,     \* QuoteApp.selected_id (0: None)
  tree,            \* ids of the rows shown in the GUI's list, top to bottom
  status,          \* what the GUI's status line reports
  threads,         \* the GUI's worker threads that have not ended
  afterq,          \* callbacks scheduled with root.after(0, ...), oldest first
  started          \* worker threads started by the GUI so far

vars == <<site, table, store, seq, storeFaults, pc, page, quote_elements, elemDom,
          idx, driver, quits, dom, phase, nav, outcome, hist, run, prev,
          resp, buttons, selected_id, tree, status, threads, afterq, started>>

storeVars == <<table, store, seq, storeFaults>>
loopVars == <<page, quote_elements, elemDom, idx>>
browserVars == <<dom, phase, nav>>
crawlVars == <<pc, loopVars, driver, quits, browserVars, outcome, hist, run, prev>>
guiVars == <<buttons, selected_id, tree, status, threads, afterq, started>>
clientVars == <<resp, guiVars>>

(* ---------------- the source site ---------------- *)
Digit == <<"1", "2", "3", "4", "5", "6", "7", "8", "9">>

\* A quote block is its child nodes per class: the texts of the .text nodes,
\* of the .author nodes and of the .tag nodes, each in document order.
BlockKinds ==
  { [text |-> <<"q">>, author |-> <<"a">>, tags |-> <<"y", "x", "y">>],
    [text |-> <<"q">>, author |-> <<"a">>, tags |-> <<>>],
    [text |-> <<>>,    author |-> <<"a">>, tags |-> <<"x">>],
    [text |-> <<"q">>, author |-> <<>>,    tags |-> <<>>],
    [text |-> <<"">>,  author |-> <<"a">>, tags |-> <<>>] }

Layouts == UNION { [1..n -> BlockKinds] : n \in 0..MaxBlocks }

\* Block k of page s carries the page and the position in its quotation.
Stamp(b, s, k) ==
  [b EXCEPT !.text = IF b.text = <<>> \/ b.text[1] = "" THEN b.text
                     ELSE <<b.text[1] \o Digit[s] \o "." \o Digit[k]>>]

Sites ==
  { [s \in 1..n |-> [k \in 1..Len(l) |-> Stamp(l[k], s, k)]] :
      n \in 1..MaxSitePages, l \in Layouts }

(* ---------------- Record Store (sqlite) ---------------- *)
\* (variant: the relation keeps one row per quotation, INSERT OR IGNORE)
Insert_or_ignore(rows, last, r) ==
  IF \E i \in DOMAIN rows :
       rows[i].text = r.text /\ rows[i].author = r.author /\ rows[i].tags = r.tags
  THEN rows
  ELSE Append(rows, [id |-> last + 1, text |-> r.text, author |-> r.author,
                     tags |-> r.tags])

\* (variant: id INTEGER PRIMARY KEY without AUTOINCREMENT: the largest id in the
\* relation plus one)
Insert_rowid(rows, last, r) ==
  Append(rows, [id |-> IF rows = <<>> THEN 1 ELSE rows[Len(rows)].id + 1,
                text |-> r.text, author |-> r.author, tags |-> r.tags])

\* INSERT INTO quotes (text, author, tags) VALUES (?, ?, ?)
Insert(rows, last, r) ==
  Append(rows, [id |-> last + 1, text |-> r.text, author |-> r.author, tags |-> r.tags])

(* ---------------- Element Extractor ---------------- *)
RECURSIVE Join_unique(_)
\* (variant: a tag text is kept once, ",".join(dict.fromkeys(...)))
Join_unique(ts) ==
  IF ts = <<>> THEN ""
  ELSE IF SelectSeq(Tail(ts), LAMBDA t : t # ts[1]) = <<>> THEN ts[1]
  ELSE ts[1] \o "," \o Join_unique(SelectSeq(Tail(ts), LAMBDA t : t # ts[1]))

RECURSIVE Join(_)
\* ",".join([t.text for t in tag_elements])
Join(ts) ==
  IF ts = <<>> THEN ""
  ELSE IF Len(ts) = 1 THEN ts[1]
  ELSE ts[1] \o "," \o Join(Tail(ts))

\* (variant: the tags are looked up with find_element, which needs one .tag node)
NoSuchElement_or_tag(b) == b.text = <<>> \/ b.author = <<>> \/ b.tags = <<>>

\* element.find_element(By.CLASS_NAME, c) raises NoSuchElementException
NoSuchElement(b) == b.text = <<>> \/ b.author = <<>>

\* the record handed to save_quote for one block
Candidate(b) == [text |-> b.text[1], author |-> b.author[1], tags |-> Join(b.tags)]

(* ---------------- Page Renderer ---------------- *)
\* the quote blocks present in the document right now
CurrentBlocks == IF phase = "rendered" /\ dom \in 1..Len(site) THEN site[dom] ELSE <<>>

\* driver.find_element(By.CSS_SELECTOR, "li.next > a") finds a node
HasNext == phase = "rendered" /\ dom < Len(site)

\* the handles of quote_elements no longer belong to the loaded document
Stale == elemDom # dom

Init ==
  /\ site \in Sites
  /\ table = FALSE /\ store = <<>> /\ seq = 0 /\ storeFaults = 0
  /\ pc = "start" /\ page = 0 /\ quote_elements = <<>> /\ elemDom = 0 /\ idx = 0
  /\ driver = "none" /\ quits = 0
  /\ dom = 0 /\ phase = "blank" /\ nav = FALSE
  /\ outcome = "running" /\ hist = <<>>
  /\ run = 1 /\ prev = [rows |-> 0, outcome |-> "none", hist |-> <<>>]
  /\ resp = [n |-> 0, op |-> "none", id |-> 0, status |-> 0, body |-> "none"]
  /\ buttons = {} /\ selected_id = 0 /\ tree = <<>> /\ status = "closed"
  /\ threads = {} /\ afterq = <<>> /\ started = 0

(* ---------------- Crawl Runner: __main__, init_db, get_driver ---------------- *)
\* (variant: DROP TABLE IF EXISTS quotes, then CREATE TABLE)
init_db_recreate ==
  /\ pc = "start"
  /\ \/ /\ table' = TRUE /\ store' = <<>> /\ seq' = 0
        /\ UNCHANGED storeFaults
     \/ /\ storeFaults < MaxStoreFaults
        /\ storeFaults' = storeFaults + 1
        /\ UNCHANGED <<table, store, seq>>
  /\ pc' = "launch"
  /\ UNCHANGED <<site, loopVars, driver, quits, browserVars, outcome, hist, run, prev, clientVars>>

\* init_db(): CREATE TABLE IF NOT EXISTS; a sqlite3.Error is logged and swallowed
init_db ==
  /\ pc = "start"
  /\ \/ /\ table' = TRUE
        /\ UNCHANGED <<store, seq, storeFaults>>
     \/ /\ storeFaults < MaxStoreFaults
        /\ storeFaults' = storeFaults + 1
        /\ UNCHANGED <<table, store, seq>>
  /\ pc' = "launch"
  /\ UNCHANGED <<site, loopVars, driver, quits, browserVars, outcome, hist, run, prev, clientVars>>

\* driver = get_driver(), called before the try block: the engine starts, or the
\* exception of webdriver.Chrome / ChromeDriverManager leaves scrape_quotes
get_driver ==
  /\ pc = "launch"
  /\ \/ /\ driver' = "open"
        /\ pc' = "get"
        /\ UNCHANGED outcome
     \/ /\ outcome' = "raised"
        /\ pc' = "exit"
        /\ UNCHANGED driver
  /\ UNCHANGED <<site, storeVars, loopVars, quits, browserVars, hist, run, prev, clientVars>>

\* (variant: driver.quit() follows the try block without a finally clause, so
\* the WebDriverException handler's path does not reach it)
leave_without_finally(o) ==
  /\ outcome' = o
  /\ IF o = "critical"
     THEN UNCHANGED <<driver, quits>>
     ELSE driver' = "quit" /\ quits' = quits + 1
  /\ pc' = "exit"
  /\ quote_elements' = <<>> /\ elemDom' = 0 /\ idx' = 0
  /\ dom' = 0 /\ phase' = "blank" /\ nav' = FALSE

\* scrape_quotes returns (or raises) with outcome o: finally: driver.quit() closes
\* the browser on the way out, and the locals of the loop are gone
leave(o) ==
  /\ outcome' = o
  /\ driver' = "quit" /\ quits' = quits + 1
  /\ pc' = "exit"
  /\ quote_elements' = <<>> /\ elemDom' = 0 /\ idx' = 0
  /\ dom' = 0 /\ phase' = "blank" /\ nav' = FALSE

\* driver.get(TARGET_URL); the loop starts with page = 1
driver_get ==
  /\ pc = "get"
  /\ dom' = 1 /\ phase' \in {"blank", "rendered"} /\ nav' = FALSE
  /\ page' = 1
  /\ pc' = "wait"
  /\ UNCHANGED <<site, storeVars, quote_elements, elemDom, idx, driver, quits,
                 outcome, hist, run, prev, clientVars>>

(* ---------------- the browser, on its own schedule ---------------- *)
\* the navigation started by the scripted click replaces the document
page_unload ==
  /\ pc \in {"wait", "query", "extract", "advance"}
  /\ nav
  /\ dom' = dom + 1 /\ phase' = "blank" /\ nav' = FALSE
  /\ UNCHANGED <<site, storeVars, pc, loopVars, driver, quits, outcome, hist, run, prev, clientVars>>

\* the page's script renders the quote blocks of the loaded document
page_render ==
  /\ pc \in {"wait", "query", "extract", "advance"}
  /\ phase = "blank"
  /\ phase' = "rendered"
  /\ UNCHANGED <<site, storeVars, pc, loopVars, driver, quits, dom, nav, outcome,
                 hist, run, prev, clientVars>>

(* ---------------- Pagination Controller: the page loop ---------------- *)
\* WebDriverWait(driver, 10).until(presence_of_element_located(quote)) returns
wait_ok ==
  /\ pc = "wait"
  /\ CurrentBlocks # <<>>
  /\ pc' = "query"
  /\ UNCHANGED <<site, storeVars, loopVars, driver, quits, browserVars, outcome,
                 hist, run, prev, clientVars>>

\* (variant: the TimeoutException handler logs and goes on with the next page)
wait_timeout_continue ==
  /\ pc = "wait"
  /\ CurrentBlocks = <<>>
  /\ page < MaxPage
  /\ outcome' = "timeout"
  /\ page' = page + 1
  /\ UNCHANGED <<site, storeVars, pc, quote_elements, elemDom, idx, driver, quits,
                 browserVars, hist, run, prev, clientVars>>

\* (variant: a timeout on the first page loads TARGET_URL again and retries)
wait_timeout_retry ==
  /\ pc = "wait"
  /\ CurrentBlocks = <<>>
  /\ IF page = 1
     THEN /\ pc' = "get" /\ outcome' = "timeout"
          /\ UNCHANGED <<quote_elements, elemDom, idx, driver, quits, browserVars>>
     ELSE leave("timeout")
  /\ UNCHANGED <<site, storeVars, page, hist, run, prev, clientVars>>

\* ... or raises TimeoutException: except TimeoutException: log, break
wait_timeout ==
  /\ pc = "wait"
  /\ CurrentBlocks = <<>>
  /\ leave("timeout")
  /\ UNCHANGED <<site, storeVars, page, hist, run, prev, clientVars>>

\* (variant: the handles are kept last to first)
find_quotes_reversed ==
  /\ pc = "query"
  /\ CurrentBlocks # <<>>
  /\ quote_elements' = [k \in 1..Len(CurrentBlocks) |->
                          CurrentBlocks[Len(CurrentBlocks) + 1 - k]]
  /\ elemDom' = dom
  /\ idx' = 1
  /\ hist' = Append(hist, [page |-> page, src |-> dom, before |-> Len(store),
                           after |-> Len(store), seen |-> 0, failed |-> {},
                           done |-> FALSE, clicked |-> FALSE])
  /\ pc' = "extract"
  /\ UNCHANGED <<site, storeVars, page, driver, quits, browserVars, outcome, run, prev, clientVars>>

\* quote_elements = driver.find_elements(By.CLASS_NAME, "quote"), non-empty
find_quotes ==
  /\ pc = "query"
  /\ CurrentBlocks # <<>>
  /\ quote_elements' = CurrentBlocks
  /\ elemDom' = dom
  /\ idx' = 1
  /\ hist' = Append(hist, [page |-> page, src |-> dom, before |-> Len(store),
                           after |-> Len(store), seen |-> 0, failed |-> {},
                           done |-> FALSE, clicked |-> FALSE])
  /\ pc' = "extract"
  /\ UNCHANGED <<site, storeVars, page, driver, quits, browserVars, outcome, run, prev, clientVars>>

\* find_elements returns no handle: if not quote_elements: log a warning, break
no_quotes ==
  /\ pc = "query"
  /\ CurrentBlocks = <<>>
  /\ hist' = Append(hist, [page |-> page, src |-> dom, before |-> Len(store),
                           after |-> Len(store), seen |-> 0, failed |-> {},
                           done |-> FALSE, clicked |-> FALSE])
  /\ leave("noblocks")
  /\ UNCHANGED <<site, storeVars, page, run, prev, clientVars>>

\* save_quote(text, author, tags): the INSERT commits (ok), or sqlite3.Error is
\* caught and logged (a missing relation always fails)
save_quote(r, ok) ==
  IF ok
  THEN /\ table
       /\ store' = Insert(store, seq, r)
       /\ seq' = seq + 1
       /\ UNCHANGED <<table, storeFaults>>
  ELSE /\ ~table \/ storeFaults < MaxStoreFaults
       /\ storeFaults' = IF table THEN storeFaults + 1 ELSE storeFaults
       /\ UNCHANGED <<table, store, seq>>

\* the inner loop moves to the next handle; after the last one the page is
\* logged as done and control reaches the page advancing
next_block(lost) ==
  /\ hist' = [hist EXCEPT ![Len(hist)] =
                [@ EXCEPT !.failed = @ \cup lost,
                          !.after = Len(store'),
                          !.seen = idx,
                          !.done = (idx = Len(quote_elements))]]
  /\ IF idx < Len(quote_elements)
     THEN idx' = idx + 1 /\ pc' = "extract"
     ELSE idx' = idx /\ pc' = "advance"

\* (variant: save_quote has no except clause, the sqlite3.Error leaves the loop)
extract_element_raise ==
  /\ pc = "extract"
  /\ ~Stale
  /\ ~NoSuchElement(quote_elements[idx])
  /\ \E ok \in BOOLEAN :
       /\ save_quote(Candidate(quote_elements[idx]), ok)
       /\ IF ok
          THEN /\ next_block({})
               /\ UNCHANGED <<quote_elements, elemDom, driver, quits, browserVars,
                              outcome>>
          ELSE leave("raised") /\ UNCHANGED hist
  /\ UNCHANGED <<site, page, run, prev, clientVars>>

\* one iteration of for element in quote_elements with both children found:
\* text, author, joined tags, save_quote (which never raises)
extract_element ==
  /\ pc = "extract"
  /\ ~Stale
  /\ ~NoSuchElement(quote_elements[idx])
  /\ \E ok \in BOOLEAN :
       /\ save_quote(Candidate(quote_elements[idx]), ok)
       /\ next_block(IF ok THEN {} ELSE {idx})
  /\ UNCHANGED <<site, page, quote_elements, elemDom, driver, quits, browserVars,
                 outcome, run, prev, clientVars>>

\* (variant: the try surrounds the for loop, a missing child ends the page)
skip_element_break ==
  /\ pc = "extract"
  /\ ~Stale
  /\ NoSuchElement(quote_elements[idx])
  /\ hist' = [hist EXCEPT ![Len(hist)] = [@ EXCEPT !.seen = idx, !.done = TRUE]]
  /\ pc' = "advance"
  /\ UNCHANGED <<site, storeVars, loopVars, driver, quits, browserVars, outcome,
                 run, prev, clientVars>>

\* one iteration whose .text or .author child is missing:
\* except NoSuchElementException: warning, next block
skip_element ==
  /\ pc = "extract"
  /\ ~Stale
  /\ NoSuchElement(quote_elements[idx])
  /\ UNCHANGED <<site, storeVars, page, quote_elements, elemDom, driver, quits,
                 browserVars, outcome, run, prev, clientVars>>
  /\ next_block({})

\* the handles belong to a document that was replaced:
\* StaleElementReferenceException, a WebDriverException, reaches the outer handler
stale_element ==
  /\ pc = "extract"
  /\ Stale
  /\ leave("critical")
  /\ UNCHANGED <<site, storeVars, page, hist, run, prev, clientVars>>

\* (variant: if page <= 5)
MorePages_inclusive(p) == p <= MaxPage

\* if page < 5
MorePages(p) == p < MaxPage

\* next_btn found: execute_script click, time.sleep(1), next iteration
click_next ==
  /\ pc = "advance"
  /\ MorePages(page)
  /\ HasNext
  /\ nav' = TRUE
  /\ hist' = [hist EXCEPT ![Len(hist)].clicked = TRUE]
  /\ page' = page + 1
  /\ pc' = "wait"
  /\ UNCHANGED <<site, storeVars, quote_elements, elemDom, idx, driver, quits, dom,
                 phase, outcome, run, prev, clientVars>>

\* (variant: the handler logs the end of pagination and goes on, no break)
no_next_continue ==
  /\ pc = "advance"
  /\ MorePages(page)
  /\ ~HasNext
  /\ outcome' = "nonext"
  /\ page' = page + 1
  /\ pc' = "wait"
  /\ UNCHANGED <<site, storeVars, quote_elements, elemDom, idx, driver, quits,
                 browserVars, hist, run, prev, clientVars>>

\* no li.next > a in the document: except NoSuchElementException: log, break
no_next ==
  /\ pc = "advance"
  /\ MorePages(page)
  /\ ~HasNext
  /\ leave("nonext")
  /\ UNCHANGED <<site, storeVars, page, hist, run, prev, clientVars>>

\* page = 5: no page advancing, range(1, 6) is exhausted
loop_end ==
  /\ pc = "advance"
  /\ ~MorePages(page)
  /\ leave("maxpages")
  /\ UNCHANGED <<site, storeVars, page, hist, run, prev, clientVars>>

\* a WebDriverException of any driver call inside the try block:
\* except WebDriverException: log critical
webdriver_exception ==
  /\ pc \in {"get", "wait", "query", "extract", "advance"}
  /\ leave("critical")
  /\ UNCHANGED <<site, storeVars, page, hist, run, prev, clientVars>>

\* the pipeline is executed a second time: python pacho.py, on the same quotes.db
rerun ==
  /\ pc = "exit"
  /\ run = 1
  /\ run' = run + 1
  /\ prev' = [rows |-> Len(store), outcome |-> outcome, hist |-> hist]
  /\ pc' = "start" /\ page' = 0 /\ quote_elements' = <<>> /\ elemDom' = 0 /\ idx' = 0
  /\ driver' = "none" /\ quits' = 0
  /\ dom' = 0 /\ phase' = "blank" /\ nav' = FALSE
  /\ outcome' = "running" /\ hist' = <<>>
  /\ storeFaults' = 0
  /\ UNCHANGED <<site, table, store, seq, clientVars>>

(* ---------------- the store as its writers see it ---------------- *)
\* an INSERT of the running pipeline, the page loop left out: the candidate of
\* some block of the site is handed to save_quote
crawl_save ==
  /\ pc = "launch"
  /\ seq < MaxId
  /\ \E s \in DOMAIN site : \E k \in DOMAIN site[s] :
       /\ ~NoSuchElement(site[s][k])
       /\ \E ok \in BOOLEAN : save_quote(Candidate(site[s][k]), ok)
  /\ UNCHANGED <<site, crawlVars, clientVars>>

(* ---------------- CRUD API: api.py ---------------- *)
\* request bodies: one that PostCreate accepts twice over, one with an empty text
Payloads ==
  { [text |-> "n", author |-> "b", tags |-> "z"],
    [text |-> "m", author |-> "b", tags |-> ""],
    [text |-> "",  author |-> "b", tags |-> ""] }

\* PostCreate: text and author have min_length=1
Valid(q) == Len(q.text) >= 1 /\ Len(q.author) >= 1

\* the response to the request that was served
Respond(op, id, st, body) ==
  resp' = [n |-> resp.n + 1, op |-> op, id |-> id, status |-> st, body |-> body]

\* a statement raises sqlite3.Error (always when the relation is missing):
\* nothing is committed, the handler answers 500
DbError(op, id) ==
  /\ ~table \/ storeFaults < MaxStoreFaults
  /\ storeFaults' = IF table THEN storeFaults + 1 ELSE storeFaults
  /\ UNCHANGED <<table, store, seq>>
  /\ Respond(op, id, 500, "detail")

\* GET /quotes: SELECT * FROM quotes ORDER BY id DESC
get_quotes ==
  \/ /\ table
     /\ UNCHANGED storeVars
     /\ Respond("get", 0, 200, [i \in DOMAIN store |-> store[Len(store) + 1 - i]])
  \/ DbError("get", 0)

\* POST /quotes: INSERT, commit, 201 with cursor.lastrowid
create_quote(q) ==
  IF ~Valid(q)
  THEN UNCHANGED storeVars /\ Respond("post", 0, 422, "detail")
  ELSE \/ /\ table /\ seq < MaxId
          /\ store' = Insert(store, seq, q)
          /\ seq' = seq + 1
          /\ UNCHANGED <<table, storeFaults>>
          /\ Respond("post", 0, 201, store'[Len(store')])
       \/ DbError("post", 0)

\* (variant: the 404 is decided by a SELECT after the UPDATE was sent without
\* its WHERE clause restricted to the stored ids: a missing id is inserted)
update_quote_upsert(id, q) ==
  IF ~Valid(q)
  THEN UNCHANGED storeVars /\ Respond("put", id, 422, "detail")
  ELSE \/ /\ table
          /\ store' = IF \E i \in DOMAIN store : store[i].id = id
                       THEN [i \in DOMAIN store |->
                               IF store[i].id = id
                               THEN [id |-> id, text |-> q.text, author |-> q.author,
                                     tags |-> q.tags]
                               ELSE store[i]]
                       ELSE Append(store, [id |-> id, text |-> q.text,
                                           author |-> q.author, tags |-> q.tags])
          /\ UNCHANGED <<table, seq, storeFaults>>
          /\ IF \E i \in DOMAIN store : store[i].id = id
             THEN Respond("put", id, 200, [id |-> id, text |-> q.text,
                                           author |-> q.author, tags |-> q.tags])
             ELSE Respond("put", id, 404, "detail")
       \/ DbError("put", id)

\* PUT /quotes/{quote_id}: UPDATE ... WHERE id = ?, commit, 404 if rowcount == 0
update_quote(id, q) ==
  IF ~Valid(q)
  THEN UNCHANGED storeVars /\ Respond("put", id, 422, "detail")
  ELSE \/ /\ table
          /\ store' = [i \in DOMAIN store |->
                         IF store[i].id = id
                         THEN [id |-> id, text |-> q.text, author |-> q.author,
                               tags |-> q.tags]
                         ELSE store[i]]
          /\ UNCHANGED <<table, seq, storeFaults>>
          /\ IF \E i \in DOMAIN store : store[i].id = id
             THEN Respond("put", id, 200, [id |-> id, text |-> q.text,
                                           author |-> q.author, tags |-> q.tags])
             ELSE Respond("put", id, 404, "detail")
       \/ DbError("put", id)

\* DELETE /quotes/{quote_id}: DELETE ... WHERE id = ?, commit, 404 if rowcount == 0
delete_quote(id) ==
  \/ /\ table
     /\ store' = SelectSeq(store, LAMBDA r : r.id # id)
     /\ UNCHANGED <<table, seq, storeFaults>>
     /\ IF \E i \in DOMAIN store : store[i].id = id
        THEN Respond("delete", id, 200, "message")
        ELSE Respond("delete", id, 404, "detail")
  \/ DbError("delete", id)

\* requests of a client that talks to the API directly
client_get ==
  /\ resp.n < MaxRequests
  /\ get_quotes
  /\ UNCHANGED <<site, crawlVars, guiVars>>

client_post ==
  /\ resp.n < MaxRequests
  /\ \E q \in Payloads : create_quote(q)
  /\ UNCHANGED <<site, crawlVars, guiVars>>

client_put ==
  /\ resp.n < MaxRequests
  /\ \E id \in 1..MaxId : \E q \in Payloads : update_quote(id, q)
  /\ UNCHANGED <<site, crawlVars, guiVars>>

client_delete ==
  /\ resp.n < MaxRequests
  /\ \E id \in 1..MaxId : delete_quote(id)
  /\ UNCHANGED <<site, crawlVars, guiVars>>

(* ---------------- GUI: gui.py ---------------- *)
\* _toggle_inputs(enable): refresh and add follow enable, update and delete are
\* enabled only if enable and self.selected_id
toggle_inputs(enable, sel) ==
  IF enable
  THEN {"refresh", "add"} \cup (IF sel # 0 THEN {"update", "delete"} ELSE {})
  ELSE {}

\* threading.Thread(target=self._worker_..., daemon=True).start()
Thread_start(kind, id, q) ==
  /\ threads' = threads \cup {[tid |-> started + 1, kind |-> kind, id |-> id, q |-> q,
                                at |-> "request"]}
  /\ started' = started + 1

\* the body of a request without one
NoBody == [text |-> "", author |-> "", tags |-> ""]

\* refresh_data(): status, lock, start _worker_get_quotes
refresh_data ==
  /\ status' = "loading"
  /\ buttons' = toggle_inputs(FALSE, selected_id)
  /\ Thread_start("get", 0, NoBody)

\* QuoteApp(root): selected_id = None, _setup_ui(), refresh_data()
QuoteApp_init ==
  /\ status = "closed"
  /\ selected_id' = 0
  /\ refresh_data
  /\ UNCHANGED <<site, storeVars, crawlVars, resp, tree, afterq>>

\* btn_refresh pressed
click_refresh ==
  /\ "refresh" \in buttons
  /\ started < MaxStarted
  /\ refresh_data
  /\ UNCHANGED <<site, storeVars, crawlVars, resp, selected_id, tree, afterq>>

\* btn_add pressed: add_data() with the fields as typed; an empty text or author
\* is refused with a warning
add_data ==
  /\ "add" \in buttons
  /\ started < MaxStarted
  /\ \E q \in Payloads :
       /\ q.text # "" /\ q.author # ""
       /\ Thread_start("post", 0, q)
  /\ status' = "adding"
  /\ buttons' = toggle_inputs(FALSE, selected_id)
  /\ UNCHANGED <<site, storeVars, crawlVars, resp, selected_id, tree, afterq>>

\* <<TreeviewSelect>>: _on_tree_select() for a row of the list
on_tree_select ==
  /\ status # "closed"
  /\ \E i \in DOMAIN tree : selected_id' = tree[i]
  /\ buttons' = buttons \cup {"update", "delete"}
  /\ status' = "selected"
  /\ UNCHANGED <<site, storeVars, crawlVars, resp, tree, threads, afterq, started>>

\* btn_update pressed: update_data() with the fields as they are, not validated
update_data ==
  /\ "update" \in buttons
  /\ selected_id # 0
  /\ started < MaxStarted
  /\ \E q \in Payloads : Thread_start("put", selected_id, q)
  /\ status' = "updating"
  /\ buttons' = toggle_inputs(FALSE, selected_id)
  /\ UNCHANGED <<site, storeVars, crawlVars, resp, selected_id, tree, afterq>>

\* btn_delete pressed and the question answered yes: delete_data()
delete_data ==
  /\ "delete" \in buttons
  /\ selected_id # 0
  /\ started < MaxStarted
  /\ Thread_start("delete", selected_id, NoBody)
  /\ status' = "deleting"
  /\ buttons' = toggle_inputs(FALSE, selected_id)
  /\ UNCHANGED <<site, storeVars, crawlVars, resp, selected_id, tree, afterq>>

\* the worker got a response below 400: root.after(0, <success callback>), and
\* the thread ends
worker_success(t) ==
  /\ threads' = threads \ {t}
  /\ afterq' = Append(afterq,
       [fn |-> IF t.kind = "get" THEN "_ui_refresh_success" ELSE "_ui_action_success",
        tid |-> t.tid,
        data |-> IF t.kind = "get"
                 THEN [i \in DOMAIN resp'.body |-> resp'.body[i].id]
                 ELSE <<>>])

\* requests.RequestException as e: root.after(0, lambda: self._ui_error(f"...{e}"));
\* the thread is still inside the except block, where e is bound
worker_except(t) ==
  /\ threads' = (threads \ {t}) \cup {[t EXCEPT !.at = "except"]}
  /\ afterq' = Append(afterq, [fn |-> "_ui_error", tid |-> t.tid, data |-> <<>>])

\* _worker_get_quotes / _post_ / _put_ / _delete_quote: the request is served by
\* the API, or fails on the way (connection refused, timeout)
worker_request ==
  /\ \E t \in threads :
       /\ t.at = "request"
       /\ \/ /\ UNCHANGED <<storeVars, resp>>
             /\ worker_except(t)
          \/ /\ CASE t.kind = "get" -> get_quotes
                  [] t.kind = "post" -> create_quote(t.q)
                  [] t.kind = "put" -> update_quote(t.id, t.q)
                  [] t.kind = "delete" -> delete_quote(t.id)
             /\ IF resp'.status < 400 THEN worker_success(t) ELSE worker_except(t)
  /\ UNCHANGED <<site, crawlVars, buttons, selected_id, tree, status, started>>

\* the worker leaves its except block, which unbinds e, and the thread ends
worker_return ==
  /\ \E t \in threads :
       /\ t.at = "except"
       /\ threads' = threads \ {t}
  /\ UNCHANGED <<site, storeVars, crawlVars, resp, buttons, selected_id, tree, status,
                 afterq, started>>

\* _ui_refresh_success(data): list refilled, selection dropped, unlock
ui_refresh_success(data) ==
  /\ tree' = data
  /\ status' = "loaded"
  /\ selected_id' = 0
  /\ buttons' = toggle_inputs(TRUE, 0)
  /\ UNCHANGED <<threads, started>>

\* _ui_action_success(msg): message, fields cleared, refresh_data()
ui_action_success ==
  /\ refresh_data
  /\ UNCHANGED <<selected_id, tree>>

\* _ui_error(error_msg): status "操作失敗", unlock, error box
ui_error ==
  /\ status' = "failed"
  /\ buttons' = toggle_inputs(TRUE, selected_id)
  /\ UNCHANGED <<selected_id, tree, threads, started>>

\* the Tk main loop runs the oldest callback scheduled with root.after(0, ...).
\* The error callback is a lambda that reads the worker's local e when it is
\* called: if the worker has left its except block by then, e is unbound, the
\* lambda raises NameError before _ui_error is called and Tk reports it.
run_callback ==
  /\ afterq # <<>>
  /\ afterq' = Tail(afterq)
  /\ CASE Head(afterq).fn = "_ui_refresh_success" -> ui_refresh_success(Head(afterq).data)
       [] Head(afterq).fn = "_ui_action_success" -> ui_action_success
       [] Head(afterq).fn = "_ui_error" ->
            IF \E t \in threads : t.tid = Head(afterq).tid
            THEN ui_error
            ELSE UNCHANGED <<buttons, selected_id, tree, status, threads, started>>
  /\ UNCHANGED <<site, storeVars, crawlVars, resp>>

Next ==
  \/ init_db
  \/ get_driver
  \/ driver_get
  \/ page_unload
  \/ page_render
  \/ wait_ok
  \/ wait_timeout
  \/ find_quotes
  \/ no_quotes
  \/ extract_element
  \/ skip_element
  \/ stale_element
  \/ click_next
  \/ no_next
  \/ loop_end
  \/ webdriver_exception

Spec == Init /\ [][Next]_vars

\* the steps of the pipeline process itself (the browser's own steps left out)
Pipeline ==
  \/ init_db
  \/ get_driver
  \/ driver_get
  \/ wait_ok
  \/ wait_timeout
  \/ find_quotes
  \/ no_quotes
  \/ extract_element
  \/ skip_element
  \/ stale_element
  \/ click_next
  \/ no_next
  \/ loop_end
  \/ webdriver_exception

\* the process is sequential and every call it makes returns or raises (each
\* render wait ends within its 10 s timeout): while the run has not ended the
\* process takes its next step.  Nothing is assumed of the browser.
SpecLive == Init /\ [][Next]_vars /\ WF_vars(Pipeline)

NextRerun == Next \/ rerun

InitRerun == Init /\ Len(site) <= MaxRerunPages

SpecRerun == InitRerun /\ [][NextRerun]_vars

\* quotes.db under the pipeline's writes and the requests of an API client
NextApi ==
  \/ init_db
  \/ crawl_save
  \/ client_get
  \/ client_post
  \/ client_put
  \/ client_delete

InitApi == Init /\ Len(site) = 1 /\ Len(site[1]) = 1

SpecApi == InitApi /\ [][NextApi]_vars

\* the GUI, its worker threads and the API they call, on a quotes.db that the
\* pipeline writes
NextGui ==
  \/ init_db
  \/ crawl_save
  \/ QuoteApp_init
  \/ click_refresh
  \/ add_data
  \/ on_tree_select
  \/ update_data
  \/ delete_data
  \/ worker_request
  \/ worker_return
  \/ run_callback

SpecGui == InitApi /\ [][NextGui]_vars

(* ======================= properties ======================= *)
\* a block with a .text child and an .author child
WellFormed(b) == Len(b.text) > 0 /\ Len(b.author) > 0

\* the source blocks the handles of page entry h stood for
Blocks(h) == site[h.src]

\* the rows written while page entry h was processed, as (text, author) pairs
PageCells(h) ==
  [j \in 1..(h.after - h.before) |->
     <<store[h.before + j].text, store[h.before + j].author>>]

\* the (text, author) pairs of the blocks that were visited, are well formed and
\* whose write did not fail, in document order
KeptIdx(h) ==
  SelectSeq([k \in 1..h.seen |-> k],
            LAMBDA k : WellFormed(Blocks(h)[k]) /\ k \notin h.failed)

KeptCells(h) ==
  [j \in 1..Len(KeptIdx(h)) |->
     <<Blocks(h)[KeptIdx(h)[j]].text[1], Blocks(h)[KeptIdx(h)[j]].author[1]>>]

\* the rows of the store are those of the earlier runs followed by the rows of
\* the page entries of this run, page after page
Ledger ==
  /\ \A i \in DOMAIN hist :
       /\ hist[i].before = IF i = 1 THEN prev.rows ELSE hist[i - 1].after
       /\ hist[i].before <= hist[i].after
  /\ Len(store) = IF hist = <<>> THEN prev.rows ELSE hist[Len(hist)].after

\* C1: the page index and the number of pages whose blocks are queried never
\* exceed the maximum page count (each page index is queried at most once), and
\* no next-page click is issued on the page whose index is the maximum,
\* whatever the renderer shows.
C1_PageBound ==
  /\ page <= MaxPage
  /\ Len(hist) <= MaxPage
  /\ \A i \in DOMAIN hist :
       /\ hist[i].page = i
       /\ hist[i].page <= MaxPage
       /\ hist[i].clicked => hist[i].page < MaxPage

\* the loop ended at the bound on a page that still shows a next-page control
C1_Witness ==
  /\ pc = "exit" /\ outcome = "maxpages"
  /\ Len(hist) = MaxPage /\ hist[MaxPage].src = MaxPage
  /\ Len(site) > MaxPage

\* C2: a processed page whose N blocks all have a text and an author child gets
\* exactly N rows, one per block in order, with or without tags, when no write fails.
C2_OnePerBlock ==
  /\ Ledger
  /\ \A i \in DOMAIN hist :
       (/\ hist[i].done
        /\ hist[i].failed = {}
        /\ \A k \in DOMAIN Blocks(hist[i]) : WellFormed(Blocks(hist[i])[k]))
       => /\ hist[i].after - hist[i].before = Len(Blocks(hist[i]))
          /\ \A k \in DOMAIN Blocks(hist[i]) :
               /\ store[hist[i].before + k].text = Blocks(hist[i])[k].text[1]
               /\ store[hist[i].before + k].author = Blocks(hist[i])[k].author[1]

\* a processed page of two well-formed blocks, one with tags and one without
C2_Witness ==
  \E i \in DOMAIN hist :
    /\ hist[i].done /\ hist[i].failed = {}
    /\ Len(Blocks(hist[i])) >= 2
    /\ \A k \in DOMAIN Blocks(hist[i]) : WellFormed(Blocks(hist[i])[k])
    /\ \E k \in DOMAIN Blocks(hist[i]) : Blocks(hist[i])[k].tags = <<>>
    /\ \E k \in DOMAIN Blocks(hist[i]) : Blocks(hist[i])[k].tags # <<>>
    /\ hist[i].after - hist[i].before = Len(Blocks(hist[i]))

\* C3: a block without its text or author child yields no row, its siblings are
\* all visited and written as if it were absent, and the page is then done and
\* control is at the page advancing.
C3_MalformedSkipped ==
  /\ pc = "advance" => hist[Len(hist)].done
  /\ \A i \in DOMAIN hist :
       (/\ hist[i].done
        /\ hist[i].failed = {}
        /\ \E k \in DOMAIN Blocks(hist[i]) : ~WellFormed(Blocks(hist[i])[k]))
       => /\ hist[i].seen = Len(Blocks(hist[i]))
          /\ PageCells(hist[i]) =
               [j \in 1..Len(SelectSeq(Blocks(hist[i]), WellFormed)) |->
                  <<SelectSeq(Blocks(hist[i]), WellFormed)[j].text[1],
                    SelectSeq(Blocks(hist[i]), WellFormed)[j].author[1]>>]

\* a page whose first block is malformed and whose second block was written,
\* after which the next-page click was issued
C3_Witness ==
  \E i \in DOMAIN hist :
    /\ hist[i].done /\ hist[i].failed = {} /\ hist[i].clicked
    /\ Len(Blocks(hist[i])) >= 2
    /\ ~WellFormed(Blocks(hist[i])[1])
    /\ WellFormed(Blocks(hist[i])[2])
    /\ hist[i].after - hist[i].before >= 1

\* C4: a render-wait timeout on page K ends the run (Aborted): page K and later
\* pages have no entry and no row, every click was issued before page K, and the
\* rows of pages 1..K-1 are in the store as they were written.
C4_TimeoutAborts ==
  outcome = "timeout" =>
    /\ pc = "exit"
    /\ Len(hist) = page - 1
    /\ Ledger
    /\ \A i \in DOMAIN hist :
         /\ hist[i].page = i
         /\ hist[i].done /\ hist[i].clicked
         /\ PageCells(hist[i]) = KeptCells(hist[i])

\* a timeout on page 3 after rows of pages 1 and 2 were written
C4_Witness ==
  /\ outcome = "timeout" /\ pc = "exit" /\ page = 3
  /\ hist[1].after > hist[1].before
  /\ hist[2].after > hist[2].before
  /\ Len(store) = hist[2].after

\* C5: when no next-page control is found after page K < max, the run ends
\* (Done) having processed exactly the page indices 1..K: K entries, all done,
\* a click after each but the last, and no wait or query for a later page.
C5_NoNextDone ==
  outcome = "nonext" =>
    /\ pc = "exit"
    /\ page < MaxPage
    /\ Len(hist) = page
    /\ \A i \in DOMAIN hist :
         /\ hist[i].page = i
         /\ hist[i].done
         /\ hist[i].clicked <=> i < page

\* the run ended on the last page of a three-page site
C5_Witness ==
  /\ outcome = "nonext" /\ pc = "exit" /\ page = 3
  /\ Len(site) = 3 /\ hist[3].src = 3

\* C6: once the renderer is acquired, driver.quit() is called exactly once by the
\* time scrape_quotes is left, on every path, and never while the loop runs.
C6_QuitOnce ==
  /\ quits <= 1
  /\ driver = "open" => (quits = 0 /\ pc # "exit")
  /\ (pc = "exit" /\ driver # "none") => (driver = "quit" /\ quits = 1)

\* a renderer failure during the extraction of a page, after which the
\* renderer was released once
C6_Witness ==
  /\ pc = "exit" /\ outcome = "critical" /\ quits = 1
  /\ hist # <<>> /\ ~hist[Len(hist)].done

\* C7: every row of the store has a non-empty text and a non-empty author.
C7_NonEmptyFields ==
  \A i \in DOMAIN store : store[i].text # "" /\ store[i].author # ""

\* C8: a failed write does not end the crawl: no exception leaves the page loop,
\* the failed record is absent, the blocks after it are visited and written, and
\* the inner loop and the page advancing go on as after a successful write.
C8_FailedWriteIsolated ==
  /\ outcome = "raised" => driver = "none"
  /\ pc = "extract" => hist[Len(hist)].seen = idx - 1
  /\ pc = "advance" => (hist[Len(hist)].done /\ hist[Len(hist)].seen = Len(quote_elements))
  /\ \A i \in DOMAIN hist :
       hist[i].failed # {} =>
         /\ PageCells(hist[i]) = KeptCells(hist[i])
         /\ hist[i].done => hist[i].seen = Len(Blocks(hist[i]))

\* the write of the first block of a page failed, the second block was written
\* and the next-page click was issued
C8_Witness ==
  \E i \in DOMAIN hist :
    /\ table
    /\ hist[i].failed = {1}
    /\ hist[i].done /\ hist[i].clicked
    /\ hist[i].after - hist[i].before = 1
    /\ store[hist[i].after].text = Blocks(hist[i])[2].text[1]

\* C9: no renderer failure leaves the crawl runner as an exception.
C9_NeverRaises == outcome # "raised"

\* a run without failure: every page index saw its own source page, every write
\* committed, and the loop ended at the page bound or on the last page
CleanRun(o, hs) ==
  /\ o \in {"maxpages", "nonext"}
  /\ Len(hs) = IF Len(site) < MaxPage THEN Len(site) ELSE MaxPage
  /\ \A i \in DOMAIN hs : hs[i].src = i /\ hs[i].failed = {} /\ hs[i].done

\* two runs without failure on an empty store leave 2M rows: the M rows of the
\* first run, and the same M (text, author, tags) again under other ids
C10_TwiceM ==
  (/\ run = 2 /\ pc = "exit"
   /\ CleanRun(outcome, hist)
   /\ CleanRun(prev.outcome, prev.hist))
  => /\ Len(store) = 2 * prev.rows
     /\ \A i \in 1..prev.rows :
          /\ store[prev.rows + i].text = store[i].text
          /\ store[prev.rows + i].author = store[i].author
          /\ store[prev.rows + i].tags = store[i].tags
          /\ \A j \in 1..prev.rows : store[prev.rows + i].id # store[j].id

\* a step of the pipeline keeps every row and adds rows only under fresh ids
C10_AppendOnly ==
  /\ Len(store') >= Len(store)
  /\ SubSeq(store', 1, Len(store)) = store
  /\ \A j \in (Len(store) + 1)..Len(store') :
       \A i \in 1..Len(store) : store'[j].id # store[i].id

\* C10: re-running the pipeline on an unchanged source appends the same records
\* again (M records become 2M); the crawl never updates or deletes a row.
C10_RerunDuplicates == []C10_TwiceM /\ [][C10_AppendOnly]_vars

\* the second run without failure ended with twice the rows of the first
C10_Witness ==
  /\ run = 2 /\ pc = "exit"
  /\ CleanRun(outcome, hist)
  /\ CleanRun(prev.outcome, prev.hist)
  /\ prev.rows >= 2
  /\ Len(store) = 2 * prev.rows

RECURSIVE Commas(_)
\* the texts of ts, first to last, each but the first preceded by a comma
Commas(ts) ==
  IF Len(ts) = 0 THEN ""
  ELSE IF Len(ts) = 1 THEN ts[1]
  ELSE Commas(SubSeq(ts, 1, Len(ts) - 1)) \o "," \o ts[Len(ts)]

\* C13: the tags of a stored row are the tag texts of its block joined by commas
\* in document order, repeated tags kept and nothing sorted; a block without tag
\* nodes has a row too, with the empty tags string.
C13_TagsJoined ==
  \A i \in DOMAIN hist :
    /\ hist[i].after - hist[i].before = Len(KeptIdx(hist[i]))
    /\ \A j \in 1..Len(KeptIdx(hist[i])) :
         store[hist[i].before + j].tags =
           Commas(Blocks(hist[i])[KeptIdx(hist[i])[j]].tags)

\* a page whose first block has the tags y, x, y and whose second block has no
\* tag node: both have a row, with "y,x,y" and with ""
C13_Witness ==
  \E i \in DOMAIN hist :
    /\ hist[i].done /\ hist[i].failed = {}
    /\ Len(Blocks(hist[i])) = 2
    /\ Blocks(hist[i])[1].tags = <<"y", "x", "y">>
    /\ Blocks(hist[i])[2].tags = <<>> /\ WellFormed(Blocks(hist[i])[2])
    /\ hist[i].after - hist[i].before = 2
    /\ store[hist[i].before + 1].tags = "y,x,y"
    /\ store[hist[i].before + 2].tags = ""

\* the positions in the store of the rows written while page entry h was processed
RowsOf(h) == (h.before + 1)..h.after

\* C15: rows are appended in crawl order: the i-th page processed has page index
\* i, the rows of a page are those of its blocks in document order, and of two
\* rows of one run the one of the earlier page, or of the earlier block of the
\* same page, has the smaller id.
C15_CrawlOrder ==
  /\ \A i \in DOMAIN hist : hist[i].page = i
  /\ pc \in {"query", "extract", "advance"} =>
       page = IF pc = "query" THEN Len(hist) + 1 ELSE Len(hist)
  /\ \A i \in DOMAIN hist : PageCells(hist[i]) = KeptCells(hist[i])
  /\ \A i1 \in DOMAIN hist : \A i2 \in DOMAIN hist :
       \A a \in RowsOf(hist[i1]) : \A b \in RowsOf(hist[i2]) :
         (i1 < i2 \/ (i1 = i2 /\ a < b)) => store[a].id < store[b].id

\* two pages of two rows each: the four ids increase with page and block
C15_Witness ==
  /\ Len(hist) >= 2
  /\ hist[1].src = 1 /\ hist[2].src = 2
  /\ hist[1].done /\ hist[2].done
  /\ hist[1].after - hist[1].before = 2
  /\ hist[2].after - hist[2].before = 2
  /\ store[hist[1].after].id < store[hist[2].before + 1].id
  /\ store[hist[2].before + 1].text # store[hist[2].before + 2].text

\* C14: a failure raised while one block is extracted is skipped: when the
\* handle of the block to extract is no longer valid (its document was replaced),
\* the step taken on it leaves the run in the block loop or at the page
\* advancing, it does not end the run.
C14_BlockFailureSkipped ==
  [][(pc = "extract" /\ elemDom # dom) => pc' \in {"extract", "advance"}]_vars

\* C17: the blocks extracted while the page index is p are those of the p-th
\* source page.
C17_PageIsSource ==
  \A i \in DOMAIN hist : hist[i].src = hist[i].page

\* a call of init_db keeps every row, the id counter and an existing relation
C12_InitStep ==
  (pc = "start" /\ pc' = "launch")
  => /\ store' = store
     /\ seq' = seq
     /\ table => table'

\* C12: init_db is idempotent and non-destructive: whenever it is called, on an
\* empty or a filled store, every row (id, text, author, tags) is as before and
\* a relation that was present is still present.
C12_InitIdempotent == [][C12_InitStep]_vars

\* init_db has returned in the second execution, on a store of two or more rows
C12_Witness ==
  /\ run = 2 /\ pc = "launch"
  /\ table /\ Len(store) >= 2 /\ Len(store) = prev.rows

\* C16 as stated: a run whose renderer was acquired ends Done or Aborted
C16_DoneOrAborted ==
  (pc = "exit" /\ driver = "quit")
  => outcome \in {"maxpages", "noblocks", "nonext", "timeout"}

\* C16 (amended): every run ends: the page loop is left as Done, as Aborted or
\* on a renderer failure, after at most MaxPage page iterations, and a renderer
\* that was acquired has been released.
C16_Terminates ==
  <>(/\ pc = "exit"
     /\ outcome \in {"maxpages", "noblocks", "nonext", "timeout", "critical", "raised"}
     /\ page <= MaxPage /\ Len(hist) <= MaxPage
     /\ driver # "open"
     /\ (outcome # "raised" => quits = 1))

\* a run that went through all MaxPage iterations has ended, renderer released
C16_Witness ==
  /\ pc = "exit" /\ outcome = "maxpages"
  /\ Len(hist) = MaxPage /\ driver = "quit" /\ quits = 1

\* no two rows share an id, ids grow in insertion order and none exceeds the
\* id counter
C11_Distinct ==
  /\ \A i \in DOMAIN store : store[i].id <= seq
  /\ \A i \in DOMAIN store : \A j \in DOMAIN store :
       i < j => store[i].id < store[j].id

\* a step never lowers the id counter, and a row under an id that no row had
\* before the step has an id above the counter, hence above every id assigned
\* so far, those of deleted rows included
C11_Fresh ==
  /\ seq' >= seq
  /\ \A j \in DOMAIN store' :
       (\A i \in DOMAIN store : store[i].id # store'[j].id) => store'[j].id > seq

\* C11: after any sequence of crawl appends and API creates, updates and
\* deletes, ids are pairwise distinct and each newly assigned id is greater than
\* every id assigned before it: the id of a deleted row is never reused.
C11_IdsMonotonic == []C11_Distinct /\ [][C11_Fresh]_vars

\* a row was created through the API after the row with the largest id had been
\* deleted: its id is above the deleted one
C11_Witness ==
  /\ resp.op = "post" /\ resp.status = 201 /\ resp.body.id = 3
  /\ Len(store) = 2 /\ store[1].id = 1 /\ store[2].id = 3
  /\ seq = 3

\* what a PUT or DELETE that was served without a database error did
C20_Step ==
  (resp'.n # resp.n /\ resp'.op \in {"put", "delete"})
  => CASE resp'.status \in {422, 500} -> store' = store
       [] resp'.status \notin {422, 500}
            /\ \A i \in DOMAIN store : store[i].id # resp'.id ->
            resp'.status = 404 /\ store' = store
       [] OTHER ->
            /\ resp'.status = 200
            /\ IF resp'.op = "delete"
               THEN store' = SelectSeq(store, LAMBDA r : r.id # resp'.id)
               ELSE /\ Len(store') = Len(store)
                    /\ \A i \in DOMAIN store :
                         IF store[i].id = resp'.id
                         THEN store'[i] = resp'.body /\ store'[i].id = resp'.id
                         ELSE store'[i] = store[i]

\* C20: a PUT or DELETE for an id that is not in the store answers 404 and
\* leaves every row as it was; for an id that is in the store it changes or
\* removes exactly that row and leaves all other rows as they were.
C20_NotFoundOrExactlyOne == [][C20_Step]_vars

\* a DELETE answered 404 on a store of two rows, after an earlier DELETE of
\* that id had removed its row
C20_Witness ==
  /\ resp.op = "delete" /\ resp.status = 404
  /\ Len(store) = 2 /\ seq = 3
  /\ \A i \in DOMAIN store : store[i].id # resp.id

\* C18: while a request of the GUI is in flight (its worker has not ended or
\* its callback has not run) no second worker is in flight and the update and
\* delete buttons are disabled.
C18_OneInFlight ==
  /\ Cardinality({t \in threads : t.at = "request"}) <= 1
  /\ (threads # {} \/ afterq # <<>>) => buttons \cap {"update", "delete"} = {}

\* C19: the GUI does not stay locked: when no worker is left and no callback is
\* pending, the refresh and add buttons are enabled.
C19_NotLocked ==
  (status # "closed" /\ threads = {} /\ afterq = <<>>)
  => {"refresh", "add"} \subseteq buttons

====
